---- MODULE Spec2Model ----
(***************************************************************************)
(* Drive-time search over a hexagonal cost grid                            *)
(* (monkeygod/friction_h3_traversal.py): the cost graph, the priority      *)
(* frontier, dijkstra_search, reconstruct_path and calculate_travel_time   *)
(* with its single-slot surface cache and its persisted files.             *)
(*                                                                         *)
(* Hex cells are the integers 1..NumCells, laid out as a two-row strip of  *)
(* the hexagonal grid: cell i touches cells i-2, i-1, i+1 and i+2.         *)
(* h3.hex_range(h, 1) is the disk of radius 1, so it contains h itself.    *)
(***************************************************************************)
EXTENDS Integers, Sequences, FiniteSets, TLC

VARIABLES
    costs,          \* g.costs: the cost table, cell -> value (None: no row)
    start,          \* dijkstra_search's arguments
    hex_goal,
    distance_goal,
    frontier,       \* PriorityQueue.elements
    came_from,
    cost_so_far,
    pc,             \* where the running search is
    popped,         \* history: the cells frontier.get() has returned so far
    improved,       \* history: the cells whose recorded cost was lowered
    path,           \* the last result of reconstruct_path
    temp_df_cache,  \* the module-level single-slot cache
    disk,           \* DATA_DIR: file path -> file content
    calls,          \* history: the completed calculate_travel_time calls
    op,             \* a queue used on its own: its last operation
    nput,           \* history: the puts made on that queue
    nget,           \* history: the gets made on that queue
    proc            \* concurrent calculate_travel_time calls: each call's
                    \* position, arguments and local variables

vars == <<costs, start, hex_goal, distance_goal, frontier, came_from,
          cost_so_far, pc, popped, improved, path, temp_df_cache, disk,
          calls, op, nput, nget, proc>>

searchVars == <<start, hex_goal, distance_goal, frontier, came_from,
                cost_so_far, pc, popped, improved, path>>

queryVars == <<temp_df_cache, disk, calls>>

queueVars == <<op, nput, nget>>

---------------------------------------------------------------------------
(* Bounds of the model *)

NumCells == 5
MaxCost == 1
MaxCeil == 2
MaxQueries == 2
MaxPuts == 3
MaxPriority == 2

(* Constants of the program *)

DefaultCost == 20
DefaultDistanceGoal == 3000

\* Python's None: an argument not supplied, came_from[start], a missing key.
None == -1

Cells == 1..NumCells

\* What a row of the cost table can hold; None stands for a cell with no row.
CostEntries == (0..MaxCost) \cup {None}

EmptyDict == [k \in {} |-> None]

\* d[k] = v of a Python dict
SetItem(d, k, v) == (k :> v) @@ d

\* mutant: the step is charged the cost of the cell entered
cost_Next(graph, current, next) ==
    IF graph[next] = None THEN DefaultCost ELSE graph[next]

\* Python truthiness of None, an int or a non-empty cell id
Truthy(x) == x # None /\ x # 0

---------------------------------------------------------------------------
(* H3CostGraph *)

neighbors(h) == {n \in Cells : n - h \in -2..2}

cost(graph, current, next) ==
    IF graph[current] = None THEN DefaultCost ELSE graph[current]

---------------------------------------------------------------------------
(* PriorityQueue: elements is kept as the heap's pop order, the (priority, *)
(* item) tuples in ascending order.                                        *)

\* mutant: the tuples pushed as (item, priority)
TupleLeq_ItemFirst(a, b) == a[2] < b[2] \/ (a[2] = b[2] /\ a[1] <= b[1])

TupleLeq(a, b) == a[1] < b[1] \/ (a[1] = b[1] /\ a[2] <= b[2])

empty(elements) == Len(elements) = 0

\* mutant: an item already queued is not queued again
put_Once(elements, item, priority) ==
    LET e == <<priority, item>>
        k == Cardinality({i \in 1..Len(elements) : TupleLeq(elements[i], e)})
    IN  IF \E i \in 1..Len(elements) : elements[i][2] = item THEN elements
        ELSE SubSeq(elements, 1, k) \o <<e>>
             \o SubSeq(elements, k + 1, Len(elements))

put(elements, item, priority) ==
    LET e == <<priority, item>>
        k == Cardinality({i \in 1..Len(elements) : TupleLeq(elements[i], e)})
    IN  SubSeq(elements, 1, k) \o <<e>> \o SubSeq(elements, k + 1, Len(elements))

\* mutant: pops the entry of greatest priority
get_Last(elements) ==
    [item |-> elements[Len(elements)][2],
     elements |-> SubSeq(elements, 1, Len(elements) - 1)]

\* get() returns the item and leaves the rest
get(elements) == [item |-> Head(elements)[2], elements |-> Tail(elements)]

---------------------------------------------------------------------------
(* dijkstra_search *)

\* the assert of line 122
HasGoal(hg, dg) == Truthy(hg) \/ Truthy(dg)

\* lines 123-128
SearchInit(st) ==
    [frontier    |-> put(<<>>, st, 0),
     came_from   |-> SetItem(EmptyDict, st, None),
     cost_so_far |-> SetItem(EmptyDict, st, 0)]

\* mutant: the ceiling is never applied
Pruned_Off(priority, dg) == FALSE

\* mutant: an entry exactly at the ceiling is still enqueued
Pruned_Strict(priority, dg) == dg # None /\ priority > dg

\* whether line 142 skips the put
Pruned(priority, dg) == dg # None /\ priority >= dg

\* mutant: a recorded cost is never lowered
Relax_FirstOnly(graph, s, current, next, dg) ==
    LET new_cost == s.cost_so_far[current] + cost(graph, current, next)
    IN  IF next \notin DOMAIN s.cost_so_far
        THEN [frontier    |-> IF Pruned(new_cost, dg) THEN s.frontier
                              ELSE put(s.frontier, next, new_cost),
              came_from   |-> SetItem(s.came_from, next, current),
              cost_so_far |-> SetItem(s.cost_so_far, next, new_cost)]
        ELSE s

\* mutant: an equal cost also replaces the recorded one
Relax_Leq(graph, s, current, next, dg) ==
    LET new_cost == s.cost_so_far[current] + cost(graph, current, next)
    IN  IF next \notin DOMAIN s.cost_so_far \/ new_cost <= s.cost_so_far[next]
        THEN [frontier    |-> IF Pruned(new_cost, dg) THEN s.frontier
                              ELSE put(s.frontier, next, new_cost),
              came_from   |-> SetItem(s.came_from, next, current),
              cost_so_far |-> SetItem(s.cost_so_far, next, new_cost)]
        ELSE s

\* mutant: the comparison of line 138 is the wrong way round
Relax_Gt(graph, s, current, next, dg) ==
    LET new_cost == s.cost_so_far[current] + cost(graph, current, next)
    IN  IF next \notin DOMAIN s.cost_so_far \/ new_cost > s.cost_so_far[next]
        THEN [frontier    |-> IF Pruned(new_cost, dg) THEN s.frontier
                              ELSE put(s.frontier, next, new_cost),
              came_from   |-> SetItem(s.came_from, next, current),
              cost_so_far |-> SetItem(s.cost_so_far, next, new_cost)]
        ELSE s

\* mutant: a lowered cost keeps the predecessor recorded before
Relax_KeepPred(graph, s, current, next, dg) ==
    LET new_cost == s.cost_so_far[current] + cost(graph, current, next)
    IN  IF next \notin DOMAIN s.cost_so_far \/ new_cost < s.cost_so_far[next]
        THEN [frontier    |-> IF Pruned(new_cost, dg) THEN s.frontier
                              ELSE put(s.frontier, next, new_cost),
              came_from   |-> IF next \in DOMAIN s.came_from THEN s.came_from
                              ELSE SetItem(s.came_from, next, current),
              cost_so_far |-> SetItem(s.cost_so_far, next, new_cost)]
        ELSE s

\* one pass of the for loop's body, lines 137-144
Relax(graph, s, current, next, dg) ==
    LET new_cost == s.cost_so_far[current] + cost(graph, current, next)
    IN  IF next \notin DOMAIN s.cost_so_far \/ new_cost < s.cost_so_far[next]
        THEN [frontier    |-> IF Pruned(new_cost, dg) THEN s.frontier
                              ELSE put(s.frontier, next, new_cost),
              came_from   |-> SetItem(s.came_from, next, current),
              cost_so_far |-> SetItem(s.cost_so_far, next, new_cost)]
        ELSE s

\* The for loop of line 136 over the cells of todo. hex_range returns a set;
\* the cells are taken in ascending order here. With costs >= 0 the pass for
\* current itself changes nothing, so new_cost is the same in every pass and
\* the maps and the frontier's pop order do not depend on the order.
RECURSIVE ForNeighbors(_, _, _, _, _)
ForNeighbors(graph, s, current, todo, dg) ==
    IF todo = {} THEN s
    ELSE LET next == CHOOSE n \in todo : \A m \in todo : n <= m
         IN  ForNeighbors(graph, Relax(graph, s, current, next, dg),
                          current, todo \ {next}, dg)

\* whether line 133 breaks out of the loop
AtGoal(current, hg) == hg # None /\ current = hg

\* one pass of the while loop's body, lines 131-144, after the get
Expand(graph, s, current, dg) ==
    ForNeighbors(graph, s, current, neighbors(current), dg)

\* the while loop, lines 130-144, run to its end
RECURSIVE SearchLoop(_, _, _, _)
SearchLoop(graph, s, hg, dg) ==
    IF empty(s.frontier) THEN s
    ELSE LET g == get(s.frontier)
             t == [s EXCEPT !.frontier = g.elements]
         IN  IF AtGoal(g.item, hg) THEN t
             ELSE SearchLoop(graph, Expand(graph, t, g.item, dg), hg, dg)

\* The while loop with a finalized set added: a pop of a cell that was already
\* expanded is skipped; skipped counts those pops.
RECURSIVE SearchLoopFinalized(_, _, _, _, _, _)
SearchLoopFinalized(graph, s, finalized, skipped, hg, dg) ==
    IF empty(s.frontier) THEN [s |-> s, skipped |-> skipped]
    ELSE LET g == get(s.frontier)
             t == [s EXCEPT !.frontier = g.elements]
         IN  IF g.item \in finalized
             THEN SearchLoopFinalized(graph, t, finalized, skipped + 1, hg, dg)
             ELSE IF AtGoal(g.item, hg) THEN [s |-> t, skipped |-> skipped]
             ELSE SearchLoopFinalized(graph, Expand(graph, t, g.item, dg),
                                      finalized \cup {g.item}, skipped, hg, dg)

\* dijkstra_search with the finalized set
dijkstra_search_finalized(graph, st, hg, dg) ==
    IF ~HasGoal(hg, dg)
    THEN [raised |-> TRUE, came_from |-> EmptyDict, cost_so_far |-> EmptyDict,
          skipped |-> 0]
    ELSE LET r == SearchLoopFinalized(graph, SearchInit(st), {}, 0, hg, dg)
         IN  [raised |-> FALSE, came_from |-> r.s.came_from,
              cost_so_far |-> r.s.cost_so_far, skipped |-> r.skipped]

\* the whole function: raised, or the two maps it returns
dijkstra_search(graph, st, hg, dg) ==
    IF ~HasGoal(hg, dg)
    THEN [raised |-> TRUE, came_from |-> EmptyDict, cost_so_far |-> EmptyDict]
    ELSE LET s == SearchLoop(graph, SearchInit(st), hg, dg)
         IN  [raised |-> FALSE, came_from |-> s.came_from,
              cost_so_far |-> s.cost_so_far]

---------------------------------------------------------------------------
(* reconstruct_path *)

\* mutant: a cell with no predecessor recorded is taken for the start
RECURSIVE PathLoop_Default(_, _, _, _, _, _)
PathLoop_Default(cf, csf, st, current, p, fuel) ==
    IF current = st \/ current \notin DOMAIN cf
    THEN [status |-> "ok", path |-> SetItem(p, st, 0)]
    ELSE IF fuel = 0 THEN [status |-> "loops", path |-> EmptyDict]
    ELSE PathLoop_Default(cf, csf, st, cf[current],
                  SetItem(p, current,
                          IF current \in DOMAIN csf THEN csf[current] ELSE 0),
                  fuel - 1)

\* The while loop of lines 164-167. A chain of came_from that never reaches
\* start runs for ever (a cycle) or ends in a KeyError; a walk longer than
\* the number of keys has met a cycle.
RECURSIVE PathLoop(_, _, _, _, _, _)
PathLoop(cf, csf, st, current, p, fuel) ==
    IF current = st THEN [status |-> "ok", path |-> SetItem(p, st, 0)]
    ELSE IF current \notin DOMAIN cf
    THEN [status |-> "KeyError", path |-> EmptyDict]
    ELSE IF fuel = 0 THEN [status |-> "loops", path |-> EmptyDict]
    ELSE PathLoop(cf, csf, st, cf[current],
                  SetItem(p, current,
                          IF current \in DOMAIN csf THEN csf[current] ELSE 0),
                  fuel - 1)

reconstruct_path(cf, csf, st, goal) ==
    PathLoop(cf, csf, st, goal, EmptyDict, Cardinality(DOMAIN cf) + 1)

---------------------------------------------------------------------------
(* The search, step by step *)

NoPath == [goal |-> None, status |-> "none", path |-> EmptyDict]

SearchIdle ==
    /\ start = None /\ hex_goal = None /\ distance_goal = None
    /\ frontier = <<>> /\ came_from = EmptyDict /\ cost_so_far = EmptyDict
    /\ pc = "idle" /\ popped = {} /\ improved = {} /\ path = NoPath

QueryIdle ==
    /\ temp_df_cache = EmptyDict
    /\ disk = EmptyDict
    /\ calls = <<>>

NoOp == [name |-> "none", item |-> None, priority |-> None]

QueueIdle == op = NoOp /\ nput = 0 /\ nget = 0

\* no concurrent calls
ProcIdle == proc = EmptyDict

Init ==
    /\ costs \in [Cells -> CostEntries]
    /\ start \in Cells
    /\ hex_goal \in Cells \cup {None}
    /\ distance_goal \in (0..MaxCeil) \cup {None}
    /\ frontier = <<>> /\ came_from = EmptyDict /\ cost_so_far = EmptyDict
    /\ pc = "call" /\ popped = {} /\ improved = {} /\ path = NoPath
    /\ QueryIdle
    /\ QueueIdle
    /\ ProcIdle

\* entry into dijkstra_search: the assert, then lines 123-128
Call ==
    /\ pc = "call"
    /\ IF HasGoal(hex_goal, distance_goal)
       THEN LET s == SearchInit(start)
            IN  /\ frontier' = s.frontier
                /\ came_from' = s.came_from
                /\ cost_so_far' = s.cost_so_far
                /\ pc' = "loop"
       ELSE /\ pc' = "rejected"
            /\ UNCHANGED <<frontier, came_from, cost_so_far>>
    /\ UNCHANGED <<costs, start, hex_goal, distance_goal, popped, improved,
                   path>>
    /\ UNCHANGED queryVars
    /\ UNCHANGED queueVars
    /\ UNCHANGED proc

\* one pass of the while loop: get, the goal test, the for loop
Pop ==
    /\ pc = "loop"
    /\ ~empty(frontier)
    /\ LET g == get(frontier)
           t == [frontier |-> g.elements, came_from |-> came_from,
                 cost_so_far |-> cost_so_far]
           u == IF AtGoal(g.item, hex_goal) THEN t
                ELSE Expand(costs, t, g.item, distance_goal)
       IN  /\ frontier' = u.frontier
           /\ came_from' = u.came_from
           /\ cost_so_far' = u.cost_so_far
           /\ popped' = popped \cup {g.item}
           /\ improved' = improved \cup
                  {c \in DOMAIN cost_so_far :
                      u.cost_so_far[c] < cost_so_far[c]}
           /\ pc' = IF AtGoal(g.item, hex_goal) THEN "returned" ELSE "loop"
    /\ UNCHANGED <<costs, start, hex_goal, distance_goal, path>>
    /\ UNCHANGED queryVars
    /\ UNCHANGED queueVars
    /\ UNCHANGED proc

\* the loop ends on an empty frontier and the maps are returned
Return ==
    /\ pc = "loop"
    /\ empty(frontier)
    /\ pc' = "returned"
    /\ UNCHANGED <<costs, start, hex_goal, distance_goal, frontier, came_from,
                   cost_so_far, popped, improved, path>>
    /\ UNCHANGED queryVars
    /\ UNCHANGED queueVars
    /\ UNCHANGED proc

\* reconstruct_path on the returned maps, for any goal cell
Reconstruct ==
    /\ pc = "returned"
    /\ \E goal \in Cells :
        LET r == reconstruct_path(came_from, cost_so_far, start, goal)
        IN  path' = [goal |-> goal, status |-> r.status, path |-> r.path]
    /\ pc' = "path"
    /\ UNCHANGED <<costs, start, hex_goal, distance_goal, frontier, came_from,
                   cost_so_far, popped, improved>>
    /\ UNCHANGED queryVars
    /\ UNCHANGED queueVars
    /\ UNCHANGED proc

Next == Call \/ Pop \/ Return \/ Reconstruct

Spec == Init /\ [][Next]_vars

\* Once called, dijkstra_search runs to its end: the assert, every pass of
\* the loop and the return are taken when they can be.
SpecLive ==
    Init /\ [][Next]_vars /\ WF_vars(Call) /\ WF_vars(Pop) /\ WF_vars(Return)

---------------------------------------------------------------------------
(* calculate_travel_time. Its two coordinates are taken as already snapped *)
(* to cells by h3.geo_to_h3. A DataFrame is the set of its rows, a csv     *)
(* file the set of its lines.                                              *)

\* mutant: one file name for every origin
iso_path_Fixed(start_hex) == <<"hex_isochrone", None>>

iso_path(start_hex) == <<"hex_isochrone", start_hex>>

lcp_path(start_hex) == <<"hex_path", start_hex>>

\* pd.DataFrame.from_dict(...) with its columns named and the origin added
DataFrame(d, origin) ==
    {[hex |-> h, cost |-> d[h], origin |-> origin] : h \in DOMAIN d}

to_csv(df) == {<<r.hex, r.cost, r.origin>> : r \in df}

\* A cost is a Python int while its path has crossed only cells without a
\* row (DefaultCost each); a table value is a float (h3raster.py writes
\* cost * hex_diameter / 100), and so is every sum that holds one. The
\* numbers of the model are whole: one that is no multiple of DefaultCost
\* holds a table value and stands for a double that need not be whole.
Whole(c) == c % DefaultCost = 0

\* A double next to the one c stands for, but not it. Costs are never
\* negative, so the sign keeps it apart from every cost and from None.
Misread(c) == 0 - (c + 2)

\* What the parse of the text to_csv wrote for c can give. to_csv writes a
\* double with all its digits; read_csv is called without
\* float_precision="round_trip", and its default converter is not bound to
\* give back the double written: which double it gives depends on the pandas
\* build. A whole number is read back as written.
Parsed(c) == IF Whole(c) THEN {c} ELSE {c, Misread(c)}

\* pd.read_csv(iso_path): the frames the parse of the file can give, one row
\* for each line
RECURSIVE read_csv(_)
read_csv(file) ==
    IF file = {}
    THEN {{}}
    ELSE LET l == CHOOSE x \in file : TRUE
         IN  {df \cup {[hex |-> l[1], cost |-> c, origin |-> l[3]]} :
                 df \in read_csv(file \ {l}), c \in Parsed(l[2])}

\* mutant: the two statements swapped, the cache is cleared after the store
CacheStore_ClearLast(cache, key, df) == EmptyDict

\* mutant: the surface is stored without clearing the cache first
CacheStore_NoClear(cache, key, df) == SetItem(cache, key, df)

\* lines 213-214: clear the cache, then store the surface
CacheStore(cache, key, df) == SetItem(EmptyDict, key, df)

\* lines 226-231: the surface from the cache, or reloaded from its file.
\* The set of the outcomes the lookup can have: one on a hit, one for each
\* frame the parse can give on a miss.
CacheLookup(cache, files, key) ==
    IF key \in DOMAIN cache
    THEN {[iso_df |-> cache[key], cache |-> cache, reloaded |-> FALSE]}
    ELSE {[iso_df |-> df, cache |-> SetItem(EmptyDict, key, df),
           reloaded |-> TRUE] : df \in read_csv(files[key])}

\* lines 233-237: the goal's row of the surface, or the fallback
CostToDest(iso_df, goal, dg) ==
    LET rows == {r \in iso_df : r.hex = goal}
    IN  IF rows = {} THEN dg ELSE (CHOOSE r \in rows : TRUE).cost

\* mutant: a call whose origin's surface is in the cache answers from it
\* and neither searches nor writes
calculate_travel_time_Memo(graph, cache, files, start_hex, goal, dg) ==
    LET found   == dijkstra_search(graph, start_hex, goal, None)
        df      == DataFrame(found.cost_so_far, start_hex)
        p       == reconstruct_path(found.came_from, found.cost_so_far,
                                    start_hex, goal)
    IN  IF iso_path(start_hex) \in DOMAIN cache
        THEN {[raised |-> "no",
               ret |-> CostToDest(cache[iso_path(start_hex)], goal, dg),
               cache |-> cache, files |-> files, searches |-> 0,
               reloaded |-> FALSE, cost_so_far |-> EmptyDict]}
        ELSE {[raised |-> "no", ret |-> CostToDest(df, goal, dg),
               cache |-> CacheStore(cache, iso_path(start_hex), df),
               files |-> SetItem(SetItem(files, iso_path(start_hex),
                                         to_csv(df)),
                                 lcp_path(start_hex),
                                 to_csv(DataFrame(p.path, start_hex))),
               searches |-> 1, reloaded |-> FALSE,
               cost_so_far |-> found.cost_so_far]}

\* The whole call: what it returns and what it leaves in the cache and on
\* disk; searches counts its calls of dijkstra_search. The set of the
\* outcomes the call can have: one, unless it reloads its surface.
calculate_travel_time(graph, cache, files, start_hex, goal, dg) ==
    LET found   == dijkstra_search(graph, start_hex, goal, None)
        df      == DataFrame(found.cost_so_far, start_hex)
        files1  == SetItem(files, iso_path(start_hex), to_csv(df))
        cache1  == CacheStore(cache, iso_path(start_hex), df)
        p       == reconstruct_path(found.came_from, found.cost_so_far,
                                    start_hex, goal)
        files2  == SetItem(files1, lcp_path(start_hex),
                           to_csv(DataFrame(p.path, start_hex)))
    IN  IF found.raised
        THEN {[raised |-> "AssertionError", ret |-> None, cache |-> cache,
               files |-> files, searches |-> 1, reloaded |-> FALSE,
               cost_so_far |-> EmptyDict]}
        ELSE IF p.status # "ok"
        THEN {[raised |-> p.status, ret |-> None, cache |-> cache1,
               files |-> files1, searches |-> 1, reloaded |-> FALSE,
               cost_so_far |-> found.cost_so_far]}
        ELSE {[raised |-> "no", ret |-> CostToDest(look.iso_df, goal, dg),
               cache |-> look.cache, files |-> files2, searches |-> 1,
               reloaded |-> look.reloaded,
               cost_so_far |-> found.cost_so_far] :
                  look \in CacheLookup(cache1, files2, iso_path(start_hex))}

---------------------------------------------------------------------------
(* A sequence of calculate_travel_time calls on the module's graph g and   *)
(* its shared temp_df_cache                                                *)

\* the ceiling a caller passes: one of its own, or the default
DistanceGoals == {MaxCeil, DefaultDistanceGoal}

InitQuery ==
    /\ costs \in [Cells -> CostEntries]
    /\ SearchIdle
    /\ QueryIdle
    /\ QueueIdle
    /\ ProcIdle

Query ==
    /\ Len(calls) < MaxQueries
    /\ \E start_hex \in Cells, goal \in Cells, dg \in DistanceGoals :
        \E r \in calculate_travel_time(costs, temp_df_cache, disk,
                                        start_hex, goal, dg) :
            /\ temp_df_cache' = r.cache
            /\ disk' = r.files
            /\ calls' = Append(calls,
                   [start_hex |-> start_hex, hex_goal |-> goal,
                    distance_goal |-> dg, raised |-> r.raised,
                    ret |-> r.ret, searches |-> r.searches,
                    reloaded |-> r.reloaded,
                    cost_so_far |-> r.cost_so_far])
    /\ UNCHANGED costs
    /\ UNCHANGED searchVars
    /\ UNCHANGED queueVars
    /\ UNCHANGED proc

NextQuery == Query

SpecQuery == InitQuery /\ [][NextQuery]_vars

---------------------------------------------------------------------------
(* Two calculate_travel_time calls with different origins running at the   *)
(* same time (two threads) on the module's graph and its one               *)
(* temp_df_cache. A step is one statement that reads or writes the shared  *)
(* cache, together with the call's own computation before it; the files a  *)
(* call touches are named after its origin, so they are its own.           *)

Procs == {1, 2}

\* the local variables of a call at its entry
Entry(start_hex, goal, dg) ==
    [pc |-> "search", start_hex |-> start_hex, hex_goal |-> goal,
     distance_goal |-> dg, found |-> None, df |-> None, iso_df |-> None,
     ret |-> None, raised |-> "no", reloaded |-> FALSE]

\* the cost tables of the concurrent calls: a row of value MaxCost or no row
SharedTables == [Cells -> {MaxCost, None}]

\* The two calls are interchangeable, so the first is given the lower origin.
InitShared ==
    /\ costs \in SharedTables
    /\ SearchIdle
    /\ QueryIdle
    /\ QueueIdle
    /\ \E o1 \in Cells, o2 \in Cells, g1 \in Cells, g2 \in Cells :
         /\ o1 < o2
         /\ proc = (1 :> Entry(o1, g1, DefaultDistanceGoal))
                    @@ (2 :> Entry(o2, g2, DefaultDistanceGoal))

\* what a step of a call leaves alone besides the cache, the files and proc
SharedFrame ==
    /\ UNCHANGED <<costs, calls>>
    /\ UNCHANGED searchVars
    /\ UNCHANGED queueVars

\* lines 204-212: the search, the surface and its file
TSearch(p) ==
    /\ proc[p].pc = "search"
    /\ LET me    == proc[p]
           found == dijkstra_search(costs, me.start_hex, me.hex_goal, None)
           df    == DataFrame(found.cost_so_far, me.start_hex)
       IN  IF found.raised
           THEN /\ proc' = [proc EXCEPT ![p].pc = "done",
                                        ![p].raised = "AssertionError"]
                /\ UNCHANGED <<temp_df_cache, disk>>
           ELSE /\ proc' = [proc EXCEPT ![p].pc = "clear",
                                        ![p].found = found, ![p].df = df]
                /\ disk' = SetItem(disk, iso_path(me.start_hex), to_csv(df))
                /\ UNCHANGED temp_df_cache
    /\ SharedFrame

\* line 213
TClear(p) ==
    /\ proc[p].pc = "clear"
    /\ temp_df_cache' = EmptyDict
    /\ proc' = [proc EXCEPT ![p].pc = "store"]
    /\ UNCHANGED disk
    /\ SharedFrame

\* line 214
TStore(p) ==
    /\ proc[p].pc = "store"
    /\ temp_df_cache' =
           SetItem(temp_df_cache, iso_path(proc[p].start_hex), proc[p].df)
    /\ proc' = [proc EXCEPT ![p].pc = "path"]
    /\ UNCHANGED disk
    /\ SharedFrame

\* lines 216-221: the path and its file
TPath(p) ==
    /\ proc[p].pc = "path"
    /\ LET me == proc[p]
           r  == reconstruct_path(me.found.came_from, me.found.cost_so_far,
                                  me.start_hex, me.hex_goal)
       IN  IF r.status # "ok"
           THEN /\ proc' = [proc EXCEPT ![p].pc = "done",
                                        ![p].raised = r.status]
                /\ UNCHANGED disk
           ELSE /\ proc' = [proc EXCEPT ![p].pc = "check"]
                /\ disk' = SetItem(disk, lcp_path(me.start_hex),
                                   to_csv(DataFrame(r.path, me.start_hex)))
    /\ UNCHANGED temp_df_cache
    /\ SharedFrame

\* line 226: the test temp_df_cache.get(iso_path) is not None
TCheck(p) ==
    /\ proc[p].pc = "check"
    /\ proc' = [proc EXCEPT ![p].pc =
                   IF iso_path(proc[p].start_hex) \in DOMAIN temp_df_cache
                   THEN "hit" ELSE "miss"]
    /\ UNCHANGED <<temp_df_cache, disk>>
    /\ SharedFrame

\* Line 227, the second temp_df_cache.get(iso_path), then lines 233-239.
\* When the key has gone since the test, get returns None and line 234
\* subscripts None: TypeError, which the except IndexError does not catch.
THit(p) ==
    /\ proc[p].pc = "hit"
    /\ LET me  == proc[p]
           key == iso_path(me.start_hex)
       IN  IF key \in DOMAIN temp_df_cache
           THEN proc' = [proc EXCEPT
                    ![p].pc = "done",
                    ![p].iso_df = temp_df_cache[key],
                    ![p].ret = CostToDest(temp_df_cache[key], me.hex_goal,
                                          me.distance_goal)]
           ELSE proc' = [proc EXCEPT ![p].pc = "done",
                                     ![p].raised = "TypeError"]
    /\ UNCHANGED <<temp_df_cache, disk>>
    /\ SharedFrame

\* line 229: one of the frames the parse of the call's file can give
TMiss(p) ==
    /\ proc[p].pc = "miss"
    /\ \E iso_df \in read_csv(disk[iso_path(proc[p].start_hex)]) :
         proc' = [proc EXCEPT ![p].pc = "reclear", ![p].iso_df = iso_df,
                              ![p].reloaded = TRUE]
    /\ UNCHANGED <<temp_df_cache, disk>>
    /\ SharedFrame

\* line 230
TReclear(p) ==
    /\ proc[p].pc = "reclear"
    /\ temp_df_cache' = EmptyDict
    /\ proc' = [proc EXCEPT ![p].pc = "restore"]
    /\ UNCHANGED disk
    /\ SharedFrame

\* line 231, then lines 233-239
TRestore(p) ==
    /\ proc[p].pc = "restore"
    /\ temp_df_cache' =
           SetItem(temp_df_cache, iso_path(proc[p].start_hex), proc[p].iso_df)
    /\ proc' = [proc EXCEPT
           ![p].pc = "done",
           ![p].ret = CostToDest(proc[p].iso_df, proc[p].hex_goal,
                                 proc[p].distance_goal)]
    /\ UNCHANGED disk
    /\ SharedFrame

NextShared ==
    \E p \in Procs :
        \/ TSearch(p) \/ TClear(p) \/ TStore(p) \/ TPath(p) \/ TCheck(p)
        \/ THit(p) \/ TMiss(p) \/ TReclear(p) \/ TRestore(p)

SpecShared == InitShared /\ [][NextShared]_vars

---------------------------------------------------------------------------
(* A PriorityQueue used on its own: any item put at any priority, in any   *)
(* order with the gets. frontier holds its elements.                       *)

InitQueue ==
    /\ costs = [c \in Cells |-> None]
    /\ SearchIdle
    /\ QueryIdle
    /\ QueueIdle
    /\ ProcIdle

QueuePut ==
    /\ nput < MaxPuts
    /\ \E item \in Cells, priority \in 0..MaxPriority :
         /\ frontier' = put(frontier, item, priority)
         /\ op' = [name |-> "put", item |-> item, priority |-> priority]
    /\ nput' = nput + 1
    /\ UNCHANGED <<costs, start, hex_goal, distance_goal, came_from,
                   cost_so_far, pc, popped, improved, path, nget>>
    /\ UNCHANGED queryVars
    /\ UNCHANGED proc

\* get() is called on a queue that is not empty, as the search does
QueueGet ==
    /\ ~empty(frontier)
    /\ frontier' = get(frontier).elements
    /\ op' = [name |-> "get", item |-> get(frontier).item, priority |-> None]
    /\ nget' = nget + 1
    /\ UNCHANGED <<costs, start, hex_goal, distance_goal, came_from,
                   cost_so_far, pc, popped, improved, path, nput>>
    /\ UNCHANGED queryVars
    /\ UNCHANGED proc

NextQueue == QueuePut \/ QueueGet

SpecQueue == InitQueue /\ [][NextQueue]_vars

---------------------------------------------------------------------------
(* Reference: least route cost by exhaustive relaxation (Bellman-Ford),    *)
(* independent of the frontier and of the order cells are expanded in.     *)

Unreached == NumCells * (DefaultCost + MaxCost) + 1

MinOf(S) == CHOOSE x \in S : \A y \in S : x <= y

\* the least cost of reaching v in one more step from the costs d
OneMore(graph, d, v) ==
    MinOf({d[v]} \cup
          {d[u] + cost(graph, u, v) :
              u \in {w \in Cells : v \in neighbors(w) /\ d[w] < Unreached}})

\* d after one round over the cells 1..n, as a sequence indexed by cell
RECURSIVE Round(_, _, _)
Round(graph, d, n) ==
    IF n = 0 THEN <<>>
    ELSE Append(Round(graph, d, n - 1), OneMore(graph, d, n))

RECURSIVE RelaxAll(_, _, _)
RelaxAll(graph, d, rounds) ==
    IF rounds = 0 THEN d
    ELSE RelaxAll(graph, Round(graph, d, NumCells), rounds - 1)

RECURSIVE StartCosts(_, _)
StartCosts(st, n) ==
    IF n = 0 THEN <<>>
    ELSE Append(StartCosts(st, n - 1), IF n = st THEN 0 ELSE Unreached)

LeastCostFrom(graph, st) ==
    RelaxAll(graph, StartCosts(st, NumCells), NumCells)

\* the reference tabulated once, for every cost table and start cell
LeastCostTable ==
    [x \in [Cells -> CostEntries] \X Cells |-> LeastCostFrom(x[1], x[2])]
        @@ EmptyDict

\* LeastCost(graph, st)[c]: the least cumulative cost of any route st -> c
LeastCost(graph, st) == LeastCostTable[<<graph, st>>]

Items(elements) == {elements[i][2] : i \in 1..Len(elements)}

---------------------------------------------------------------------------
(* Claims about dijkstra_search and reconstruct_path (specification Spec)  *)

\* C2: in ceiling mode (no goal cell), when the search has returned, every
\* cell whose least route cost is below the ceiling is in cost_so_far with
\* exactly that cost.
C2_CeilingOptimal ==
    (pc \in {"returned", "path"} /\ hex_goal = None /\ distance_goal # None)
    => LET least == LeastCost(costs, start)
       IN  \A c \in Cells :
              least[c] < distance_goal
              => c \in DOMAIN cost_so_far /\ cost_so_far[c] = least[c]

\* a ceiling search has returned, and a cell below the ceiling got its cost
\* by a second, cheaper relaxation
C2_Witness ==
    /\ pc = "returned" /\ hex_goal = None /\ distance_goal # None
    /\ \E c \in DOMAIN cost_so_far :
          cost_so_far[c] < distance_goal /\ c \in improved

\* C3: every cell popped so far (the goal a goal search stops at included)
\* holds its least route cost in cost_so_far, at its first pop and in every
\* later state of the search.
C3_PoppedFinal ==
    popped # {}
    => LET least == LeastCost(costs, start)
       IN  \A c \in popped :
              c \in DOMAIN cost_so_far /\ cost_so_far[c] = least[c]

\* a goal search stopped at a goal it reached by a second, cheaper relaxation
C3_Witness ==
    /\ pc = "returned" /\ hex_goal # None /\ hex_goal \in popped
    /\ Cardinality(popped) >= 3
    /\ hex_goal \in improved

\* C5: reconstruct_path from any cell g of the returned cost_so_far ends
\* (no cycle, no missing key), and its path holds start at cost 0 and g at
\* cost_so_far[g]; it is {start: 0} when g is start.
C5_PathValid ==
    (pc = "path" /\ path.goal \in DOMAIN cost_so_far)
    => /\ path.status = "ok"
       /\ start \in DOMAIN path.path /\ path.path[start] = 0
       /\ path.goal \in DOMAIN path.path
       /\ path.path[path.goal] = cost_so_far[path.goal]
       /\ path.goal = start => path.path = SetItem(EmptyDict, start, 0)

\* a path of three cells, the middle one reached at no cost, was rebuilt
C5_Witness ==
    /\ pc = "path" /\ path.status = "ok"
    /\ Cardinality(DOMAIN path.path) >= 3
    /\ path.path[path.goal] > 0
    /\ \E c \in DOMAIN path.path \ {start} : path.path[c] = 0

\* C6 (as claimed): the search is rejected, before anything is created,
\* exactly when neither a goal cell nor a ceiling is supplied.
C6_RejectedIffNoGoal ==
    pc # "call"
    => /\ (pc = "rejected") <=> (hex_goal = None /\ distance_goal = None)
       /\ pc = "rejected"
          => frontier = <<>> /\ came_from = EmptyDict /\ cost_so_far = EmptyDict

\* C10 (as claimed): with a ceiling, every frontier entry, the start entry
\* included, has a priority below the ceiling, and a cell recorded at or
\* above the ceiling is never enqueued or expanded.
C10_AllBelowCeiling ==
    distance_goal # None
    => /\ \A i \in 1..Len(frontier) : frontier[i][1] < distance_goal
       /\ \A n \in DOMAIN cost_so_far :
             cost_so_far[n] >= distance_goal
             => /\ n \in DOMAIN came_from
                /\ n \notin Items(frontier) /\ n \notin popped

\* C10 (amended): with a ceiling, every entry a relaxation puts on the
\* frontier has a priority below the ceiling; the start entry is put at
\* priority 0 whatever the ceiling. A neighbor relaxed to a cost at or above
\* the ceiling is recorded in both maps, never enqueued and never expanded.
C10_RelaxedBelowCeiling ==
    distance_goal # None
    => /\ \A i \in 1..Len(frontier) :
             frontier[i] = <<0, start>> \/ frontier[i][1] < distance_goal
       /\ \A n \in DOMAIN cost_so_far \ {start} :
             cost_so_far[n] >= distance_goal
             => /\ n \in DOMAIN came_from
                /\ n \notin Items(frontier) /\ n \notin popped

\* a neighbor sits exactly at the ceiling, recorded and not enqueued, while
\* another cell waits on the frontier
C10_Witness ==
    /\ pc = "loop" /\ distance_goal # None
    /\ \E n \in DOMAIN cost_so_far : cost_so_far[n] = distance_goal
    /\ \E m \in Items(frontier) : m # start /\ cost_so_far[m] > 0

---------------------------------------------------------------------------
(* Claims about calculate_travel_time (specification SpecQuery)            *)

LastCall == calls[Len(calls)]

\* the last completed call from origin o
LastFrom(o) ==
    calls[MinOf({i \in 1..Len(calls) :
                    /\ calls[i].start_hex = o
                    /\ \A j \in (i + 1)..Len(calls) : calls[j].start_hex # o})]

\* C1: every completed call returned the least cumulative cost of any route
\* from its start cell to its goal cell, and 0 when the two are one cell.
C1_ReturnsLeastCost ==
    \A i \in 1..Len(calls) :
        /\ calls[i].raised = "no"
        /\ calls[i].ret = LeastCost(costs, calls[i].start_hex)[calls[i].hex_goal]
        /\ calls[i].start_hex = calls[i].hex_goal => calls[i].ret = 0

\* one call with start and goal in the same cell, and one to a goal two
\* steps away that the cell expanded first reached at more than its least cost
C1_Witness ==
    /\ Len(calls) = 2
    /\ calls[1].start_hex = calls[1].hex_goal /\ calls[1].ret = 0
    /\ calls[2].hex_goal \notin neighbors(calls[2].start_hex)
    /\ calls[2].ret > 0
    /\ LET q == MinOf(neighbors(calls[2].hex_goal)
                         \cap neighbors(calls[2].start_hex))
       IN  calls[2].cost_so_far[q] + cost(costs, q, calls[2].hex_goal)
               > calls[2].ret

\* C4 (as claimed): a call whose goal's least cost is at or above the ceiling
\* it was given returns that ceiling.
C4_CeilingWhenBeyond ==
    \A i \in 1..Len(calls) :
        LeastCost(costs, calls[i].start_hex)[calls[i].hex_goal]
            >= calls[i].distance_goal
        => calls[i].ret = calls[i].distance_goal

\* C7 (as claimed): a call that repeats the call before it returns the same
\* value and does not call dijkstra_search.
C7_RepeatServedFromCache ==
    \A i \in 2..Len(calls) :
        (/\ calls[i].start_hex = calls[i - 1].start_hex
         /\ calls[i].hex_goal = calls[i - 1].hex_goal)
        => calls[i].ret = calls[i - 1].ret /\ calls[i].searches = 0

\* C8: after any completed calls, the cache holds exactly one surface, under
\* the isochrone path of the origin queried last, and it is that origin's.
C8_SingleSlot ==
    calls # <<>>
    => /\ DOMAIN temp_df_cache = {iso_path(LastCall.start_hex)}
       /\ temp_df_cache[iso_path(LastCall.start_hex)]
              = DataFrame(LastCall.cost_so_far, LastCall.start_hex)

\* two calls from different origins have completed
C8_Witness ==
    /\ Len(calls) = 2
    /\ calls[1].start_hex # calls[2].start_hex
    /\ iso_path(calls[1].start_hex) \in DOMAIN disk

\* C9: every call ran one search, and the surface on disk for an origin is
\* the cost_so_far of the last search run from it, each row tagged with it.
C9_SurfaceOverwritten ==
    /\ \A i \in 1..Len(calls) : calls[i].searches = 1
    /\ \A o \in Cells :
          (\E i \in 1..Len(calls) : calls[i].start_hex = o)
          => /\ iso_path(o) \in DOMAIN disk
             /\ disk[iso_path(o)]
                    = to_csv(DataFrame(LastFrom(o).cost_so_far, o))
             /\ LastFrom(o).cost_so_far
                    = dijkstra_search(costs, o, LastFrom(o).hex_goal,
                                      None).cost_so_far

\* two calls from one origin to different goals whose searches differ
C9_Witness ==
    /\ Len(calls) = 2
    /\ calls[1].start_hex = calls[2].start_hex
    /\ calls[1].hex_goal # calls[2].hex_goal
    /\ calls[1].cost_so_far # calls[2].cost_so_far

---------------------------------------------------------------------------
(* Further claims about dijkstra_search and reconstruct_path (Spec)        *)

\* the search was given a goal and a ceiling and the goal's least cost is
\* at or above the ceiling
GoalBeyondCeiling ==
    /\ hex_goal # None /\ distance_goal # None
    /\ pc # "call"
    /\ LeastCost(costs, start)[hex_goal] >= distance_goal

\* C11 (as claimed): when the goal's least cost is at or above the ceiling,
\* the search returns without error and cost_so_far has no entry for the goal.
C11_GoalAbsent ==
    GoalBeyondCeiling
    => /\ pc # "rejected"
       /\ pc \in {"returned", "path"} => hex_goal \notin DOMAIN cost_so_far

\* C11 (amended): when the goal's least cost is at or above the ceiling, the
\* search returns without error; a goal other than start is never popped, and
\* cost_so_far has either no entry for the goal or one at or above the
\* ceiling.
C11_GoalAbsentOrBeyond ==
    GoalBeyondCeiling
    => /\ pc # "rejected"
       /\ hex_goal # start => hex_goal \notin popped
       /\ pc \in {"returned", "path"}
          => \/ hex_goal \notin DOMAIN cost_so_far
             \/ cost_so_far[hex_goal] >= distance_goal

\* a search has returned on an empty frontier with its goal recorded at the
\* ceiling, next to a cell that was expanded
C11_Witness ==
    /\ GoalBeyondCeiling /\ pc = "returned" /\ hex_goal # start
    /\ hex_goal \in DOMAIN cost_so_far
    /\ cost_so_far[hex_goal] = distance_goal
    /\ Cardinality(popped) >= 2

\* C12: reconstruct_path for a goal that is no key of came_from (and is not
\* start) ends in an error and yields no path.
C12_UnvisitedGoalFails ==
    (pc = "path" /\ path.goal \notin DOMAIN came_from /\ path.goal # start)
    => path.status = "KeyError" /\ path.path = EmptyDict

\* reconstruct_path was called for a cell the search never recorded
C12_Witness ==
    /\ pc = "path" /\ path.goal \notin DOMAIN came_from
    /\ path.status = "KeyError"
    /\ Cardinality(DOMAIN came_from) >= 2

\* C13: in every step, every cell already in cost_so_far stays in it and its
\* recorded cost does not rise.
C13_MonotonicRelaxation ==
    [][\A c \in DOMAIN cost_so_far :
          /\ c \in DOMAIN cost_so_far'
          /\ cost_so_far'[c] <= cost_so_far[c]]_vars

\* a recorded cost has been lowered by a later relaxation
C13_Witness ==
    /\ pc = "loop" /\ improved # {}
    /\ \E c \in improved : cost_so_far[c] < DefaultCost

\* the value of the cost table for cell c: its row's value, or the default
\* when the table has no row for c
TableValue(table, c) == IF table[c] = None THEN DefaultCost ELSE table[c]

\* the cells whose recorded cost a step sets: new keys and changed values
Charged(n) ==
    /\ n \in DOMAIN cost_so_far'
    /\ n \notin DOMAIN cost_so_far \/ cost_so_far'[n] # cost_so_far[n]

\* C16 (as claimed): a step from current to neighbor n is charged the table
\* value of the cell entered, n.
C16_ChargesCellEntered ==
    [][(pc = "loop" /\ ~empty(frontier))
       => \A n \in Cells :
            Charged(n) => cost_so_far'[n] =
                cost_so_far[get(frontier).item] + TableValue(costs, n)]_vars

\* C16 (amended): a step from current to neighbor n is charged the table
\* value of the cell left, current, whichever neighbor is entered.
C16_ChargesCellLeft ==
    [][(pc = "loop" /\ ~empty(frontier))
       => \A n \in Cells :
            Charged(n) => cost_so_far'[n] =
                cost_so_far[get(frontier).item]
                + TableValue(costs, get(frontier).item)]_vars

\* a cell with a table row was entered from a cell without one and was
\* charged the default
C16_Witness ==
    /\ pc = "loop"
    /\ \E n \in DOMAIN came_from :
         /\ came_from[n] # None
         /\ costs[came_from[n]] = None /\ costs[n] # None
         /\ cost_so_far[n] = cost_so_far[came_from[n]] + DefaultCost

\* C19: came_from and cost_so_far have the same keys; start has the none
\* sentinel and cost 0; every other recorded cell's cost is its
\* predecessor's cost plus the cost of the step from it, so costs do not
\* decrease along a predecessor chain.
C19_PredecessorConsistent ==
    /\ DOMAIN came_from = DOMAIN cost_so_far
    /\ pc \in {"loop", "returned", "path"}
       => /\ start \in DOMAIN came_from
          /\ came_from[start] = None /\ cost_so_far[start] = 0
          /\ \A n \in DOMAIN came_from \ {start} :
               /\ came_from[n] \in DOMAIN cost_so_far
               /\ cost_so_far[n] = cost_so_far[came_from[n]]
                                   + cost(costs, came_from[n], n)
               /\ cost_so_far[n] >= cost_so_far[came_from[n]]

\* a cell's predecessor was replaced by a cheaper one that is not start
C19_Witness ==
    /\ pc = "returned"
    /\ \E n \in improved : came_from[n] # start /\ cost_so_far[n] > 0

\* the sum of f over the cells of S
RECURSIVE SumOver(_, _)
SumOver(f, S) ==
    IF S = {} THEN 0
    ELSE LET c == CHOOSE x \in S : TRUE IN f[c] + SumOver(f, S \ {c})

\* what the search can still lower: the recorded costs, a cell not recorded
\* yet counting as Unreached
Remaining(csf) ==
    SumOver([c \in Cells |-> IF c \in DOMAIN csf THEN csf[c] ELSE Unreached],
            Cells)

\* C14: dijkstra_search terminates, and returns exactly when the frontier is
\* empty or, in goal mode, when the cell popped is the goal. Every step of
\* the loop that does not return either lowers Remaining or leaves it and
\* shortens the frontier by one entry; both are naturals, so under SpecLive
\* the loop is left after finitely many steps.
C14_Termination ==
    [][pc = "loop"
       => /\ pc' \in {"loop", "returned"}
          /\ pc' = "returned"
             <=> \/ empty(frontier)
                 \/ hex_goal # None /\ Head(frontier)[2] = hex_goal
          /\ pc' = "loop"
             => \/ Remaining(cost_so_far') < Remaining(cost_so_far)
                \/ /\ Remaining(cost_so_far') = Remaining(cost_so_far)
                   /\ Len(frontier') = Len(frontier) - 1]_vars

\* a goal-mode search returned on an empty frontier without popping its goal
C14_Witness ==
    /\ pc = "returned" /\ hex_goal # None /\ hex_goal \notin popped
    /\ empty(frontier) /\ Cardinality(popped) >= 2

\* C15: the search with a finalized set, skipping every pop of a cell already
\* expanded, returns the same came_from and cost_so_far as the search
\* without it, and is rejected for the same arguments.
C15_FinalizedSetSameMaps ==
    LET v == dijkstra_search_finalized(costs, start, hex_goal, distance_goal)
    IN  /\ pc = "rejected" => v.raised
        /\ pc = "returned"
           => /\ ~v.raised
              /\ came_from = v.came_from
              /\ cost_so_far = v.cost_so_far

\* a search has returned in which the finalized set skips a pop
C15_Witness ==
    /\ pc = "returned" /\ improved # {}
    /\ dijkstra_search_finalized(costs, start, hex_goal,
                                 distance_goal).skipped > 0

---------------------------------------------------------------------------
(* Further claims about calculate_travel_time (SpecQuery)                  *)

\* C20: in every sequential call the lookup finds the origin's surface in the
\* cache, stored there by the same call after its own search: the reload
\* branch is not taken and the value returned is read from the surface that
\* call computed.
C20_ReloadBranchDead ==
    /\ \A i \in 1..Len(calls) :
         /\ ~calls[i].reloaded
         /\ calls[i].raised = "no"
            => calls[i].ret =
                 CostToDest(DataFrame(calls[i].cost_so_far, calls[i].start_hex),
                            calls[i].hex_goal, calls[i].distance_goal)
    /\ (calls # <<>> /\ LastCall.raised = "no")
       => /\ iso_path(LastCall.start_hex) \in DOMAIN temp_df_cache
          /\ temp_df_cache[iso_path(LastCall.start_hex)] =
                 DataFrame(LastCall.cost_so_far, LastCall.start_hex)

\* a second call for the origin of the first, with another goal and another
\* surface, has answered from its own surface
C20_Witness ==
    /\ Len(calls) = 2
    /\ calls[1].start_hex = calls[2].start_hex
    /\ calls[1].hex_goal # calls[2].hex_goal
    /\ calls[1].cost_so_far # calls[2].cost_so_far
    /\ calls[2].raised = "no" /\ ~calls[2].reloaded
    /\ calls[2].ret > 0 /\ calls[2].ret < calls[2].distance_goal

---------------------------------------------------------------------------
(* Claims about PriorityQueue (SpecQueue)                                  *)

\* how many entries of elements equal e
Count(elements, e) ==
    Cardinality({i \in 1..Len(elements) : elements[i] = e})

\* after holds the entries of before and one more entry e
OneMoreEntry(after, before, e) ==
    /\ Len(after) = Len(before) + 1
    /\ \A i \in 1..Len(after) :
         Count(after, after[i]) =
             Count(before, after[i]) + (IF after[i] = e THEN 1 ELSE 0)

\* C18: put adds exactly the one entry (priority, item), also when the item
\* is queued already; get on a non-empty queue removes exactly one entry, of
\* least priority among those queued, and returns its item; empty() holds
\* exactly when as many gets as puts have been made.
C18_PriorityFrontier ==
    /\ [](empty(frontier) <=> nput = nget)
    /\ [][/\ nput' = nput + 1
             => OneMoreEntry(frontier', frontier,
                             <<op'.priority, op'.item>>)
          /\ nget' = nget + 1
             => \E i \in 1..Len(frontier) :
                  /\ frontier[i][2] = op'.item
                  /\ \A j \in 1..Len(frontier) :
                       frontier[i][1] <= frontier[j][1]
                  /\ OneMoreEntry(frontier, frontier', frontier[i])]_vars

\* an item queued twice at different priorities: a get has returned it from
\* its entry of least priority and its other entry is still queued
C18_Witness ==
    /\ op.name = "get" /\ nput = MaxPuts /\ nget = 1
    /\ \E i \in 1..Len(frontier) :
         /\ frontier[i][2] = op.item
         /\ frontier[i][1] > 0
    /\ \E i \in 1..Len(frontier) : frontier[i][2] # op.item

---------------------------------------------------------------------------
(* Claims about concurrent calls (SpecShared)                              *)

\* the values calculate_travel_time can return for each table, origin and
\* goal when it runs alone, with the default ceiling
AloneTable ==
    [x \in SharedTables \X Cells \X Cells |->
        {r.ret : r \in calculate_travel_time(x[1], EmptyDict, EmptyDict,
                                             x[2], x[3],
                                             DefaultDistanceGoal)}]
    @@ EmptyDict

Alone(p) == AloneTable[<<costs, proc[p].start_hex, proc[p].hex_goal>>]

====
